---- MODULE Spec2Model ----
(***************************************************************************)
(* Model of scripts/build_translator.py: the pipeline that fetches the     *)
(* LLVM/clang sources, patches clang's CMakeLists.txt, configures and      *)
(* builds LLVM with cmake+ninja and then builds the transpiler with cargo. *)
(* One invocation of _main is a walk of pc from "idle" back to "idle"; the *)
(* filesystem variables persist from one invocation to the next.           *)
(***************************************************************************)
EXTENDS Integers, Sequences, FiniteSets, TLC

\* ------------------------------------------------------------------ bounds

\* longest CMakeLists.txt content (in tokens) drawn as an input
MaxLen == 3
\* how many invocations of the script, starting from a fresh root, are followed
MaxInvocations == 3

\* ------------------------------------------------------- text as sequences
\* Text is a sequence of tokens.  A token is a piece of text that the
\* program never looks inside: a path segment, a line break, one half of the
\* cmake command.

NL == "\n"

\* Python: t in s (substring)
Contains(s, t) ==
    \E k \in 0..(Len(s) - Len(t)) : SubSeq(s, k + 1, k + Len(t)) = t

\* Python: s.endswith(t)
EndsWith(s, t) ==
    /\ Len(t) <= Len(s)
    /\ SubSeq(s, Len(s) - Len(t) + 1, Len(s)) = t

\* number of places where t occurs in s
Occurrences(s, t) ==
    Cardinality({k \in 0..(Len(s) - Len(t)) : SubSeq(s, k + 1, k + Len(t)) = t})

\* Python: s.split("\n")
RECURSIVE Split(_)
Split(s) ==
    IF \A k \in 1..Len(s) : s[k] # NL
    THEN <<s>>
    ELSE LET k == CHOOSE j \in 1..Len(s) :
                      s[j] = NL /\ \A m \in 1..(j - 1) : s[m] # NL
         IN  <<SubSeq(s, 1, k - 1)>> \o Split(SubSeq(s, k + 1, Len(s)))

\* Python: handle.readlines(): the lines, each with its line break
RECURSIVE ReadLines(_)
ReadLines(s) ==
    IF s = <<>>
    THEN <<>>
    ELSE IF \A k \in 1..Len(s) : s[k] # NL
    THEN <<s>>
    ELSE LET k == CHOOSE j \in 1..Len(s) :
                      s[j] = NL /\ \A m \in 1..(j - 1) : s[m] # NL
         IN  <<SubSeq(s, 1, k)>> \o ReadLines(SubSeq(s, k + 1, Len(s)))

\* all sequences over S of length at most n
RECURSIVE SeqsUpTo(_, _)
SeqsUpTo(S, n) ==
    IF n = 0
    THEN {<<>>}
    ELSE LET shorter == SeqsUpTo(S, n - 1)
         IN  shorter \cup {Append(s, x) : s \in {t \in shorter : Len(t) = n - 1}, x \in S}

\* ---------------------------------------------------------- Patch Applier

\* the two halves of "add_clang_subdirectory(c2rust-ast-exporter)"
command == <<"add_clang_subdirectory(", "c2rust-ast-exporter)">>

\* what a CMakeLists.txt is made of: the halves of the command, other text
\* and line breaks
CMakeTokens == {"add_clang_subdirectory(", "c2rust-ast-exporter)", "x", NL}

NoFile == <<"ENOENT">>

\* (the command is appended whatever the file holds)
add_commandsAlways(content) == TRUE

\* (a line counts only when it is the command and nothing else)
add_commandsExact(content) ==
    LET cmakelists == ReadLines(content)
    IN  ~ \E i \in 1..Len(cmakelists) :
             cmakelists[i] = command \/ cmakelists[i] = command \o <<NL>>

\* add_commands = not any([command in l for l in cmakelists])
add_commands(content) ==
    LET cmakelists == ReadLines(content)
    IN  ~ \E i \in 1..Len(cmakelists) : Contains(cmakelists[i], command)

\* (the append left out)
PatchedContentNoAppend(content) == content

\* the file after update_cmakelists: open(filepath, "a+").writelines(command)
\* appends the command's characters, and no line break, at the end
PatchedContent(content) ==
    IF add_commands(content) THEN content \o command ELSE content

\* the contents a CMakeLists.txt can have: the released file holds the
\* command nowhere and update_cmakelists is the only writer, so at most once
CMakeContents ==
    {s \in SeqsUpTo(CMakeTokens, MaxLen) : Occurrences(s, command) <= 1}

\* --------------------------------------------- Cross-Tool Staleness Detector

\* paths below c.BUILD_DIR, as find prints them (segments; ".ninja_log" is the
\* two tokens "." and "ninja_log" because the code tests for its ending)
P_bld         == <<"build">>
P_archive     == <<"llvm.src.tar.xz">>
P_src         == <<"src">>
P_cmakelists  == <<"src", "tools", "clang", "CMakeLists.txt">>
P_build_ninja == <<"build", "build.ninja">>
P_lib         == <<"build", "lib", "libclangAstExporter.a">>
P_ninja_log   == <<"build", ".", "ninja_log">>
P_manifest    == <<"build", "install_manifest_clang-headers.txt">>
P_header      == <<"install", "lib", "clang", "LLVM_VER", "include", "stddef.h">>
P_install_bin == <<"install", "bin">>
\* two more that find can print: the version directory above the installed
\* headers, and a directory that is merely named like the log
P_clang_ver   == <<"install", "lib", "clang", "LLVM_VER">>
P_log_dir     == <<"build", "ninja_log", "old">>

\* what the pipeline itself touches below c.BUILD_DIR
PipelinePaths ==
    {P_bld, P_archive, P_src, P_cmakelists, P_build_ninja, P_lib,
     P_ninja_log, P_manifest, P_header, P_install_bin}

\* the entries a find listing is drawn from when need_cargo_clean is fed inputs
ListingPaths ==
    {P_build_ninja, P_lib, P_ninja_log, P_manifest, P_header, P_install_bin,
     P_clang_ver, P_log_dir}

\* what every ninja run rewrites, also one with nothing to build
NinjaChurn == {P_ninja_log, P_manifest, P_header}

Variants == {"debug", "release"}

\* (the release location whatever the variant)
c2rust_bin_pathRelease(a) == <<"target", "release", "c2rust">>

\* 'target/debug/c2rust' if args.debug else 'target/release/c2rust'
c2rust_bin_path(a) ==
    <<"target", IF a.debug THEN "debug" ELSE "release", "c2rust">>

\* "install/lib/clang/{ver}/include".format(ver=c.LLVM_VER)
include_pattern == <<"install", "lib", "clang", "LLVM_VER", "include">>

RECURSIVE Listing(_)
\* stdout of find: one line per entry, each ended by a line break
Listing(paths) ==
    IF paths = {}
    THEN <<>>
    ELSE LET p == CHOOSE q \in paths : TRUE
         IN  p \o <<NL>> \o Listing(paths \ {p})

\* (no line is passed over)
SkippedLineNone(line) == FALSE

\* the loop's test: the line is passed over (continue)
SkippedLine(line) ==
    \/ EndsWith(line, <<"install_manifest_clang-headers.txt">>)
    \/ EndsWith(line, <<"ninja_log">>)
    \/ Contains(line, include_pattern)

\* (need_cargo_clean with the empty last line of the listing not skipped)
NeedCargoCleanKeepsLastLine(isfile, stdout) ==
    IF ~isfile
    THEN FALSE
    ELSE LET lines == Split(stdout)
         IN  \E i \in 1..Len(lines) : ~SkippedLine(lines[i])

\* need_cargo_clean, given whether the c2rust binary is a file and find's stdout
NeedCargoClean(isfile, stdout) ==
    IF ~isfile
    THEN FALSE
    ELSE LET split == Split(stdout)
             lines == SubSeq(split, 1, Len(split) - 1)  \* skip empty last line
         IN  \E i \in 1..Len(lines) : ~SkippedLine(lines[i])

\* ------------------------------------------------------------------ state

VARIABLES
    invocations,  \* how many invocations have started
    pc,           \* where the running invocation of _main is; "idle" between invocations
    ai,           \* the archive the download loop is at (1..3), 0 outside the loop
    args,         \* the parsed command line of the running invocation
    last,         \* how the invocation before ended: none, failed, interrupted,
                  \* ok_debug, ok_release
    trace,        \* what the running invocation did so far, in order
    dirs,         \* which of LLVM_BLD, BUILD_DIR, AST_EXPO_PRJ_DIR, INSTALL_BIN exist
    archive,      \* per archive, the local file: none, unverified, verified
    tree,         \* per archive, its extracted directory
    cmakelists,   \* content of LLVM_SRC/tools/clang/CMakeLists.txt, or NoFile
    patched_once, \* update_cmakelists has run on this CMakeLists.txt
    build_ninja,  \* LLVM_BLD/build.ninja: NoGraph, or the settings cmake wrote it for
    built,        \* the compiled outputs in LLVM_BLD are those of build.ninja
    target,       \* per variant, cargo's build state: none, partial (no binary), built
    newer         \* per variant, the entries of BUILD_DIR changed after that build state

fsvars == <<dirs, archive, tree, cmakelists, patched_once, build_ninja, built, target, newer>>
vars == <<invocations, pc, ai, args, last, trace, dirs, archive, tree, cmakelists, patched_once,
          build_ninja, built, target, newer>>

Archives == 1..3

NoGraph == [type |-> "none", assertions |-> FALSE]
NoTree == [at |-> "none", tools |-> FALSE, checked |-> FALSE]
NoArgs == [debug |-> FALSE, xcode |-> FALSE, assertions |-> FALSE, clean_all |-> FALSE]

ArgSets == [debug : BOOLEAN, xcode : BOOLEAN, assertions : BOOLEAN, clean_all : BOOLEAN]

\* the CMakeLists.txt of the released clang archive
UpstreamCMakeLists == <<"x", NL>>

\* a step of the invocation: what ran, on which archive (0: none), and whether
\* it succeeded
Event(e, i, ok) == [e |-> e, i |-> i, ok |-> ok]

\* a fresh root: nothing downloaded, extracted or built
Init ==
    /\ invocations = 0
    /\ pc = "idle"
    /\ ai = 0
    /\ args = NoArgs
    /\ last = "none"
    /\ trace = <<>>
    /\ dirs = {}
    /\ archive = [i \in Archives |-> "none"]
    /\ tree = [i \in Archives |-> NoTree]
    /\ cmakelists = NoFile
    /\ patched_once = FALSE
    /\ build_ninja = NoGraph
    /\ built = FALSE
    /\ target = [v \in Variants |-> "none"]
    /\ newer = [v \in Variants |-> {}]

\* ---------------------------------------------------------------- helpers

\* the entries in paths change: they are now newer than every build state
Touched(paths) ==
    [v \in Variants |-> IF target[v] = "none" THEN {} ELSE newer[v] \cup paths]

\* the step ran and the invocation goes on at "next"
Goto(next, ev) ==
    /\ pc' = next
    /\ ai' = ai
    /\ trace' = trace \o ev
    /\ UNCHANGED <<invocations, args, last>>

\* die(): the invocation ends here with a non-zero status
Die(ev) ==
    /\ pc' = "dead"
    /\ ai' = 0
    /\ trace' = trace \o ev \o <<Event("die", 0, TRUE)>>
    /\ UNCHANGED <<invocations, args, last>>

\* ------------------------------------------------------- _main: startup

\* a new invocation of the script, with any command line
StartInvocation ==
    /\ pc = "idle"
    /\ invocations < MaxInvocations
    /\ invocations' = invocations + 1
    /\ \E a \in ArgSets : args' = a
    /\ pc' = "plumbum"
    /\ UNCHANGED <<ai, last, trace, fsvars>>

\* if pb.__version__ < c.MIN_PLUMBUM_VERSION: die(err)
check_plumbum ==
    /\ pc = "plumbum"
    /\ \E too_old \in BOOLEAN :
          IF too_old
          THEN Die(<<Event("check_plumbum", 0, FALSE)>>)
          ELSE Goto("parse_args", <<>>)
    /\ UNCHANGED fsvars

\* if not on_mac() and args.xcode: die(...)
parse_args ==
    /\ pc = "parse_args"
    /\ \E on_mac \in BOOLEAN :
          IF ~on_mac /\ args.xcode
          THEN Die(<<Event("parse_args", 0, FALSE)>>)
          ELSE Goto("clang_version", <<>>)
    /\ UNCHANGED fsvars

\* (the directories made before the clang version is looked at)
ensure_clang_versionAfterDirs ==
    /\ pc = "clang_version"
    /\ dirs' = dirs \cup {"LLVM_BLD", "BUILD_DIR"}
    /\ \E too_old \in BOOLEAN :
          IF too_old
          THEN Die(<<Event("ensure_clang_version", 0, FALSE)>>)
          ELSE Goto(IF args.clean_all THEN "clean_all" ELSE "scaffold", <<>>)
    /\ UNCHANGED <<archive, tree, cmakelists, patched_once, build_ninja, built, target, newer>>

\* ensure_clang_version([3, 6, 0]), then the branch on args.clean_all
ensure_clang_version ==
    /\ pc = "clang_version"
    /\ \E too_old \in BOOLEAN :
          IF too_old
          THEN Die(<<Event("ensure_clang_version", 0, FALSE)>>)
          ELSE Goto(IF args.clean_all THEN "clean_all" ELSE "scaffold", <<>>)
    /\ UNCHANGED fsvars

\* (the rmtree of BUILD_DIR left out: the downloaded archives stay)
clean_allKeepsBuildDir ==
    /\ pc = "clean_all"
    /\ dirs' = dirs \ {"LLVM_BLD", "AST_EXPO_PRJ_DIR"}
    /\ tree' = [i \in Archives |-> IF i = 1 /\ tree[1].at = "raw" THEN tree[1] ELSE NoTree]
    /\ cmakelists' = NoFile
    /\ patched_once' = FALSE
    /\ build_ninja' = NoGraph
    /\ built' = FALSE
    /\ newer' = Touched({P_src, P_bld})
    /\ UNCHANGED <<archive, target>>
    /\ Goto("cargo_clean_all", <<Event("rmtree", 0, TRUE)>>)

\* the four shutil.rmtree calls.  Everything below BUILD_DIR goes; a directory
\* that tar left under its archive name in the working directory stays
clean_all ==
    /\ pc = "clean_all"
    /\ dirs' = {}
    /\ archive' = [i \in Archives |-> "none"]
    /\ tree' = [i \in Archives |-> IF i = 1 /\ tree[1].at = "raw" THEN tree[1] ELSE NoTree]
    /\ cmakelists' = NoFile
    /\ patched_once' = FALSE
    /\ build_ninja' = NoGraph
    /\ built' = FALSE
    /\ newer' = [v \in Variants |-> {}]
    /\ UNCHANGED target
    /\ Goto("cargo_clean_all", <<Event("rmtree", 0, TRUE)>>)

\* invoke(cargo, "clean") of the full reset
cargo_clean_all ==
    /\ pc = "cargo_clean_all"
    /\ \E ok \in BOOLEAN :
          IF ok
          THEN /\ target' = [v \in Variants |-> "none"]
               /\ newer' = [v \in Variants |-> {}]
               /\ Goto("scaffold", <<Event("reset cargo clean", 0, TRUE)>>)
          ELSE /\ UNCHANGED <<target, newer>>
               /\ Die(<<Event("reset cargo clean", 0, FALSE)>>)
    /\ UNCHANGED <<dirs, archive, tree, cmakelists, patched_once, build_ninja, built>>

\* ensure_dir(c.LLVM_BLD); ensure_dir(c.BUILD_DIR); git_ignore_dir(c.BUILD_DIR)
scaffold ==
    /\ pc = "scaffold"
    /\ dirs' = dirs \cup {"LLVM_BLD", "BUILD_DIR"}
    /\ newer' = IF "LLVM_BLD" \in dirs THEN newer ELSE Touched({P_bld})
    /\ Goto("install_sig", <<Event("ensure_dir", 0, TRUE)>>)
    /\ UNCHANGED <<archive, tree, cmakelists, patched_once, build_ninja, built, target>>

\* ------------------------------------------------- download_llvm_sources

\* install_sig(c.LLVM_PUBKEY): the public key goes into the trust store first
install_sig ==
    /\ pc = "install_sig"
    /\ \E ok \in BOOLEAN :
          IF ok
          THEN /\ pc' = "download_archive"
               /\ ai' = 1
               /\ trace' = Append(trace, Event("install_sig", 0, TRUE))
               /\ UNCHANGED <<invocations, args, last>>
          ELSE Die(<<Event("install_sig", 0, FALSE)>>)
    /\ UNCHANGED fsvars

\* the loop goes on to the next archive, or ends
NextArchive(ev) ==
    /\ pc' = IF ai < 3 THEN "download_archive" ELSE "extract_llvm"
    /\ ai' = IF ai < 3 THEN ai + 1 ELSE 0
    /\ trace' = trace \o ev
    /\ UNCHANGED <<invocations, args, last>>

\* download_archive(aurl, afile, asig), first part: a local archive file that
\* is present is taken as it is (no download, no verification); otherwise the
\* archive is fetched.  The transfer can complete, fail and leave nothing, or
\* break off and leave a part of the file.
download_archive ==
    /\ pc = "download_archive"
    /\ IF archive[ai] # "none"
       THEN /\ NextArchive(<<>>)
            /\ UNCHANGED <<archive, newer>>
       ELSE \E got \in {"ok", "fail", "partial"} :
               /\ archive' = [archive EXCEPT ![ai] =
                                 IF got = "fail" THEN "none" ELSE "unverified"]
               /\ newer' = IF got = "fail" THEN newer ELSE Touched({P_archive})
               /\ IF got = "ok"
                  THEN Goto("download_sig", <<Event("curl", ai, TRUE)>>)
                  ELSE Die(<<Event("curl", ai, FALSE)>>)
    /\ UNCHANGED <<dirs, tree, cmakelists, patched_once, build_ninja, built, target>>

\* download_archive, second part: the detached signature is fetched
download_sig ==
    /\ pc = "download_sig"
    /\ \E ok \in BOOLEAN :
          IF ok
          THEN Goto("check_sig", <<Event("curl sig", ai, TRUE)>>)
          ELSE Die(<<Event("curl sig", ai, FALSE)>>)
    /\ UNCHANGED fsvars

\* download_archive, third part: the signature is verified against the
\* installed key; a failure is fatal
check_sig ==
    /\ pc = "check_sig"
    /\ \E pass \in BOOLEAN :
          IF pass
          THEN /\ archive' = [archive EXCEPT ![ai] = "verified"]
               /\ NextArchive(<<Event("check_sig", ai, TRUE)>>)
          ELSE /\ UNCHANGED archive
               /\ Die(<<Event("check_sig", ai, FALSE)>>)
    /\ UNCHANGED <<dirs, tree, cmakelists, patched_once, build_ninja, built, target, newer>>

\* (the os.path.isdir test left out: tar runs in every invocation)
ExtractAlways(i, here, renameAt, skipTo) ==
    /\ pc = here
    /\ \E ok \in (IF archive[i] = "none" THEN {FALSE} ELSE BOOLEAN),
          tools \in (IF archive[i] = "verified" \/ i = 3 THEN {TRUE} ELSE BOOLEAN) :
          IF ok
          THEN /\ tree' = [tree EXCEPT ![i] =
                              [at |-> "raw", tools |-> tools,
                               checked |-> archive[i] = "verified"]]
               /\ Goto(renameAt, <<Event("tar", i, TRUE)>>)
          ELSE /\ tools
               /\ UNCHANGED tree
               /\ Die(<<Event("tar", i, FALSE)>>)
    /\ UNCHANGED <<dirs, archive, cmakelists, patched_once, build_ninja, built, target, newer>>

\* if not os.path.isdir(<canonical name>): tar("xf", <archive i>).  tar can
\* fail; what it makes of a file that never passed the signature check may
\* lack the tools directory
Extract(i, here, renameAt, skipTo) ==
    /\ pc = here
    /\ IF tree[i].at = "canon"
       THEN /\ Goto(skipTo, <<>>)
            /\ UNCHANGED tree
       ELSE \E ok \in (IF archive[i] = "none" THEN {FALSE} ELSE BOOLEAN),
               tools \in (IF archive[i] = "verified" \/ i = 3 THEN {TRUE} ELSE BOOLEAN) :
               IF ok
               THEN /\ tree' = [tree EXCEPT ![i] =
                                   [at |-> "raw", tools |-> tools,
                                    checked |-> archive[i] = "verified"]]
                    /\ Goto(renameAt, <<Event("tar", i, TRUE)>>)
               ELSE /\ tools
                    /\ UNCHANGED tree
                    /\ Die(<<Event("tar", i, FALSE)>>)
    /\ UNCHANGED <<dirs, archive, cmakelists, patched_once, build_ninja, built, target, newer>>

\* os.rename(c.LLVM_ARCHIVE_DIRS[i], <canonical name>); with the clang tree
\* its CMakeLists.txt appears under the canonical path (a tree that is not
\* from a verified archive may lack the file)
Rename(i, here, next) ==
    /\ pc = here
    /\ tree' = [tree EXCEPT ![i].at = "canon"]
    /\ IF i = 2
       THEN /\ \E there \in (IF tree[2].checked THEN {TRUE}
                             ELSE IF tree[2].tools THEN BOOLEAN ELSE {FALSE}) :
                  cmakelists' = IF there THEN UpstreamCMakeLists ELSE NoFile
            /\ patched_once' = FALSE
       ELSE UNCHANGED <<cmakelists, patched_once>>
    /\ newer' = Touched({P_src})
    /\ Goto(next, <<Event("rename", i, TRUE)>>)
    /\ UNCHANGED <<dirs, archive, build_ninja, built, target>>

\* (the change of directory goes through although the directory is missing)
CwdIgnoresMissing(i, here, next) ==
    /\ pc = here
    /\ Goto(next, <<>>)
    /\ UNCHANGED fsvars

\* with pb.local.cwd(<dir inside tree i>): a missing directory is fatal
Cwd(i, here, next) ==
    /\ pc = here
    /\ IF tree[i].tools THEN Goto(next, <<>>) ELSE Die(<<Event("cwd", i, FALSE)>>)
    /\ UNCHANGED fsvars

extract_llvm == Extract(1, "extract_llvm", "rename_llvm", "cwd_tools")
rename_llvm == Rename(1, "rename_llvm", "cwd_tools")
cwd_tools == Cwd(1, "cwd_tools", "extract_clang")
extract_clang == Extract(2, "extract_clang", "rename_clang", "cwd_clang_tools")
rename_clang == Rename(2, "rename_clang", "cwd_clang_tools")
cwd_clang_tools == Cwd(2, "cwd_clang_tools", "extract_extra")
extract_extra == Extract(3, "extract_extra", "rename_extra", "update_cmakelists")
rename_extra == Rename(3, "rename_extra", "update_cmakelists")

\* ------------------------------------------------------ update_cmakelists

\* (the isfile test left out: open(filepath, "a+") makes the missing file)
update_cmakelistsCreates ==
    /\ pc = "update_cmakelists"
    /\ cmakelists' = IF cmakelists = NoFile THEN command ELSE PatchedContent(cmakelists)
    /\ patched_once' = TRUE
    /\ newer' = IF cmakelists = NoFile \/ add_commands(cmakelists)
                THEN Touched({P_cmakelists}) ELSE newer
    /\ Goto("configure", <<Event("update_cmakelists", 0, TRUE)>>)
    /\ UNCHANGED <<dirs, archive, tree, build_ninja, built, target>>

update_cmakelists ==
    /\ pc = "update_cmakelists"
    /\ IF cmakelists = NoFile
       THEN /\ Die(<<Event("update_cmakelists", 0, FALSE)>>)
            /\ UNCHANGED <<cmakelists, patched_once, newer>>
       ELSE /\ cmakelists' = PatchedContent(cmakelists)
            /\ patched_once' = TRUE
            /\ newer' = IF add_commands(cmakelists) THEN Touched({P_cmakelists}) ELSE newer
            /\ Goto("configure", <<Event("update_cmakelists", 0, TRUE)>>)
    /\ UNCHANGED <<dirs, archive, tree, build_ninja, built, target>>

\* ----------------------------------------------- configure_and_build_llvm

\* build_type = "Debug" if args.debug else "RelWithDebInfo"
build_type(a) == IF a.debug THEN "Debug" ELSE "RelWithDebInfo"

\* the build variant a build.ninja was generated with
get_ninja_build_type(ninja_build_file) == ninja_build_file.type

\* (the decision with the recorded build type left out of it)
run_cmakeFileOnly(a, ninja_build_file) ==
    ~(ninja_build_file # NoGraph /\ ~a.xcode)

\* (the decision with the IDE-project request left out of it)
run_cmakeIgnoresXcode(a, ninja_build_file) ==
    IF ninja_build_file # NoGraph
    THEN get_ninja_build_type(ninja_build_file) # build_type(a)
    ELSE TRUE

\* lines 103-107: whether cmake has to run
run_cmake(a, ninja_build_file) ==
    IF ninja_build_file # NoGraph /\ ~a.xcode
    THEN get_ninja_build_type(ninja_build_file) # build_type(a)
    ELSE TRUE

configure ==
    /\ pc = "configure"
    /\ Goto(IF run_cmake(args, build_ninja) THEN "cmake" ELSE "ninja", <<>>)
    /\ UNCHANGED fsvars

\* (cmake's exit status ignored: the stage goes on after a failure)
cmakeIgnoresFailure ==
    /\ pc = "cmake"
    /\ \E ok \in BOOLEAN :
          /\ IF ok
             THEN /\ build_ninja' = [type |-> build_type(args), assertions |-> args.assertions]
                  /\ built' = FALSE
                  /\ newer' = Touched({P_build_ninja})
             ELSE UNCHANGED <<build_ninja, built, newer>>
          /\ Goto(IF args.xcode THEN "cmake_xcode" ELSE "ninja", <<Event("cmake", 0, ok)>>)
    /\ UNCHANGED <<dirs, archive, tree, cmakelists, patched_once, target>>

\* invoke(cmake[cargs]) with -G Ninja: on success build.ninja is written for
\* the requested build type and assertions setting
cmake ==
    /\ pc = "cmake"
    /\ \E ok \in BOOLEAN :
          IF ok
          THEN /\ build_ninja' = [type |-> build_type(args), assertions |-> args.assertions]
               /\ built' = FALSE
               /\ newer' = Touched({P_build_ninja})
               /\ Goto(IF args.xcode THEN "cmake_xcode" ELSE "ninja", <<Event("cmake", 0, TRUE)>>)
          ELSE /\ UNCHANGED <<build_ninja, built, newer>>
               /\ Die(<<Event("cmake", 0, FALSE)>>)
    /\ UNCHANGED <<dirs, archive, tree, cmakelists, patched_once, target>>

\* ensure_dir(c.AST_EXPO_PRJ_DIR), then invoke(cmake[cargs]) with -G Xcode in it
cmake_xcode ==
    /\ pc = "cmake_xcode"
    /\ dirs' = dirs \cup {"AST_EXPO_PRJ_DIR"}
    /\ \E ok \in BOOLEAN :
          IF ok
          THEN Goto("ninja", <<Event("cmake xcode", 0, TRUE)>>)
          ELSE Die(<<Event("cmake xcode", 0, FALSE)>>)
    /\ UNCHANGED <<archive, tree, cmakelists, patched_once, build_ninja, built, target, newer>>

\* invoke(ninja, *ninja_args).  With outputs already built from this build
\* graph ninja only rewrites its log, the install manifest and the installed
\* headers; otherwise it compiles
ninja ==
    /\ pc = "ninja"
    /\ \E ok \in (IF build_ninja = NoGraph THEN {FALSE} ELSE BOOLEAN) :
          /\ newer' = IF build_ninja = NoGraph THEN newer
                      ELSE IF built THEN Touched(NinjaChurn)
                      ELSE Touched(NinjaChurn \cup {P_lib})
          /\ IF ok
             THEN /\ built' = TRUE
                  /\ Goto("makedirs", <<Event("ninja", 0, TRUE)>>)
             ELSE /\ UNCHANGED built
                  /\ Die(<<Event("ninja", 0, FALSE)>>)
    /\ UNCHANGED <<dirs, archive, tree, cmakelists, patched_once, build_ninja, target>>

\* os.makedirs(os.path.join(c.LLVM_INSTALL, 'bin'), exist_ok=True)
makedirs ==
    /\ pc = "makedirs"
    /\ dirs' = dirs \cup {"INSTALL_BIN"}
    /\ newer' = IF "INSTALL_BIN" \in dirs THEN newer ELSE Touched({P_install_bin})
    /\ Goto("build_transpiler", <<>>)
    /\ UNCHANGED <<archive, tree, cmakelists, patched_once, build_ninja, built, target>>

\* -------------------------------------------------------- build_transpiler

\* os.path.isfile(c2rust)
isfile_c2rust(path) == target[path[2]] = "built"

\* invoke_quietly(find, c.BUILD_DIR, "-cnewer", c2rust)
find_cnewer(path) == Listing(newer[path[2]])

need_cargo_clean(a) ==
    LET c2rust == c2rust_bin_path(a)
    IN  NeedCargoClean(isfile_c2rust(c2rust),
                       IF isfile_c2rust(c2rust) THEN find_cnewer(c2rust) ELSE <<>>)

\* if need_cargo_clean(args): invoke(cargo, "clean")
build_transpiler ==
    /\ pc = "build_transpiler"
    /\ Goto(IF need_cargo_clean(args) THEN "cargo_clean" ELSE "cargo_build", <<>>)
    /\ UNCHANGED fsvars

cargo_clean ==
    /\ pc = "cargo_clean"
    /\ \E ok \in BOOLEAN :
          IF ok
          THEN /\ target' = [v \in Variants |-> "none"]
               /\ newer' = [v \in Variants |-> {}]
               /\ Goto("cargo_build", <<Event("cargo clean", 0, TRUE)>>)
          ELSE /\ UNCHANGED <<target, newer>>
               /\ Die(<<Event("cargo clean", 0, FALSE)>>)
    /\ UNCHANGED <<dirs, archive, tree, cmakelists, patched_once, build_ninja, built>>

\* assert os.path.isfile(llvm_config); invoke(cargo, *build_flags).  A binary
\* that is there may be left as it is (nothing to do) or linked anew; a failed
\* build leaves intermediate state and no new binary
cargo_build ==
    /\ pc = "cargo_build"
    /\ LET v == c2rust_bin_path(args)[2] IN
       IF ~built
       THEN /\ UNCHANGED <<target, newer>>
            /\ Die(<<Event("assert llvm-config", 0, FALSE)>>)
       ELSE \E ok \in BOOLEAN, relink \in BOOLEAN :
               /\ target[v] # "built" => relink
               /\ ~ok => relink
               /\ IF ok
                  THEN /\ target' = [target EXCEPT ![v] = "built"]
                       /\ newer' = IF relink THEN [newer EXCEPT ![v] = {}] ELSE newer
                       /\ Goto("print_success_msg", <<Event("cargo build", 0, TRUE)>>)
                  ELSE /\ target' = [target EXCEPT ![v] =
                                        IF target[v] = "none" THEN "partial" ELSE target[v]]
                       /\ UNCHANGED newer
                       /\ Die(<<Event("cargo build", 0, FALSE)>>)
    /\ UNCHANGED <<dirs, archive, tree, cmakelists, patched_once, build_ninja, built>>

\* print("success! you may now run", c2rust_bin_path(args))
print_success_msg ==
    /\ pc = "print_success_msg"
    /\ pc' = "done"
    /\ trace' = Append(trace, Event(c2rust_bin_path(args)[2], 0, TRUE))
    /\ UNCHANGED <<invocations, ai, args, last, fsvars>>

\* the process has ended, by die() or after the success message: the next
\* invocation starts from what it left on disk
exit ==
    /\ pc \in {"done", "dead"}
    /\ pc' = "idle"
    /\ last' = IF pc = "dead" THEN "failed"
               ELSE IF args.debug THEN "ok_debug" ELSE "ok_release"
    /\ args' = NoArgs
    /\ trace' = <<>>
    /\ UNCHANGED <<invocations, ai, fsvars>>

\* the process is interrupted between two steps
Interrupt ==
    /\ pc \notin {"idle", "done", "dead"}
    /\ pc' = "idle"
    /\ ai' = 0
    /\ last' = "interrupted"
    /\ args' = NoArgs
    /\ trace' = <<>>
    /\ UNCHANGED <<invocations, fsvars>>

Next ==
    \/ StartInvocation
    \/ check_plumbum
    \/ parse_args
    \/ ensure_clang_version
    \/ clean_all
    \/ cargo_clean_all
    \/ scaffold
    \/ install_sig
    \/ download_archive
    \/ download_sig
    \/ check_sig
    \/ extract_llvm
    \/ rename_llvm
    \/ cwd_tools
    \/ extract_clang
    \/ rename_clang
    \/ cwd_clang_tools
    \/ extract_extra
    \/ rename_extra
    \/ update_cmakelists
    \/ configure
    \/ cmake
    \/ cmake_xcode
    \/ ninja
    \/ makedirs
    \/ build_transpiler
    \/ cargo_clean
    \/ cargo_build
    \/ print_success_msg
    \/ exit
    \/ Interrupt

Spec == Init /\ [][Next]_vars

\* ------------------------------------------------ the two detectors alone
\* update_cmakelists and need_cargo_clean on inputs drawn from bounded sets:
\* an invocation stands before one of them, with any CMakeLists.txt (or none),
\* or with any cargo build state and any find listing.

SourcesInPlace ==
    /\ archive = [i \in Archives |-> "verified"]
    /\ tree = [i \in Archives |-> [at |-> "canon", tools |-> TRUE, checked |-> TRUE]]

InitUnit ==
    /\ invocations = 1
    /\ ai = 0
    /\ last = "none"
    /\ trace = <<>>
    /\ args \in {a \in ArgSets : ~a.xcode /\ a.assertions /\ ~a.clean_all}
    /\ SourcesInPlace
    /\ patched_once = FALSE
    /\ \/ /\ pc = "update_cmakelists"
          /\ cmakelists \in CMakeContents \cup {NoFile}
          /\ dirs = {"LLVM_BLD", "BUILD_DIR"}
          /\ build_ninja = NoGraph
          /\ built = FALSE
          /\ target = [v \in Variants |-> "none"]
          /\ newer = [v \in Variants |-> {}]
       \/ /\ pc = "build_transpiler"
          /\ cmakelists = UpstreamCMakeLists
          /\ dirs = {"LLVM_BLD", "BUILD_DIR", "INSTALL_BIN"}
          /\ build_ninja = [type |-> build_type(args), assertions |-> args.assertions]
          /\ built = TRUE
          /\ target \in [Variants -> {"none", "partial", "built"}]
          /\ \E listing \in SUBSET ListingPaths :
                newer = [v \in Variants |-> IF target[v] = "none" THEN {} ELSE listing]

\* a later invocation arrives at update_cmakelists: with the clang tree in
\* place nothing before it touches CMakeLists.txt
rerun_update_cmakelists ==
    /\ pc = "configure"
    /\ invocations < MaxInvocations
    /\ invocations' = invocations + 1
    /\ pc' = "update_cmakelists"
    /\ trace' = <<>>
    /\ UNCHANGED <<ai, args, last, fsvars>>

NextUnit ==
    \/ update_cmakelists
    \/ rerun_update_cmakelists
    \/ build_transpiler

SpecUnit == InitUnit /\ [][NextUnit]_vars

\* ------------------------------------------------------------ properties

\* the invocation has run step e (on archive i)
Ran(e) == \E k \in 1..Len(trace) : trace[k].e = e
RanOn(e, i) == \E k \in 1..Len(trace) : trace[k].e = e /\ trace[k].i = i
Times(e) == Cardinality({k \in 1..Len(trace) : trace[k].e = e})

\* the variant the command line asks for
Requested == IF args.debug THEN "Debug" ELSE "RelWithDebInfo"

\* C1: without an IDE-project request, configure_and_build_llvm goes to cmake
\* exactly when there is no build.ninja or the build type recorded in it is not
\* the requested one: standing before cmake, one of the two holds; standing
\* before ninja with cmake not run, neither does.
C1_CmakeIffNoGraphOrOtherVariant ==
    ~args.xcode =>
        /\ pc = "cmake" =>
              (build_ninja = NoGraph \/ build_ninja.type # Requested)
        /\ (pc = "ninja" /\ ~Ran("cmake")) =>
              (build_ninja # NoGraph /\ build_ninja.type = Requested)

\* a build.ninja recorded as Debug, RelWithDebInfo requested: cmake is next
C1_Witness ==
    /\ pc = "cmake"
    /\ ~args.xcode
    /\ ~args.debug
    /\ build_ninja.type = "Debug"

\* the binary of the requested variant: target/<Artifact>/c2rust
Artifact == IF args.debug THEN "debug" ELSE "release"

\* the entry is one of the three kinds the staleness check passes over
Excluded(p) ==
    \/ p[Len(p)] = "install_manifest_clang-headers.txt"
    \/ p[Len(p)] = "ninja_log"
    \/ \E k \in 1..Len(p) :
          /\ k + 4 <= Len(p)
          /\ p[k] = "install" /\ p[k + 1] = "lib" /\ p[k + 2] = "clang"
          /\ p[k + 3] = "LLVM_VER" /\ p[k + 4] = "include"

\* the requested variant's binary is there and an entry that is not excluded
\* is newer than it
StaleArtifact ==
    /\ target[Artifact] = "built"
    /\ \E p \in newer[Artifact] : ~Excluded(p)

\* C2: need_cargo_clean is true exactly when the requested variant's binary
\* exists and some entry newer than it is not excluded (install manifest,
\* ninja_log, installed headers): before cargo clean that is the case, before
\* cargo build without a clean it is not (no binary, or only excluded entries).
C2_CleanIffNewerNotExcluded ==
    /\ pc = "cargo_clean" => StaleArtifact
    /\ (pc = "cargo_build" /\ ~Ran("cargo clean")) => ~StaleArtifact

\* the binary is there, entries are newer, all of them excluded: no clean
C2_Witness ==
    /\ pc = "cargo_build"
    /\ ~Ran("cargo clean")
    /\ target[Artifact] = "built"
    /\ P_manifest \in newer[Artifact]
    /\ P_header \in newer[Artifact]

\* C3: every extracted tree comes from an archive file whose signature check
\* has passed.
C3_ExtractedOnlyVerified ==
    \A i \in Archives : tree[i].at # "none" => tree[i].checked

\* the stage of _main a step belongs to, in the order _main runs them
\* (0: the startup checks)
Rank(e) ==
    CASE e \in {"check_plumbum", "parse_args", "ensure_clang_version"} -> 0
      [] e \in {"rmtree", "reset cargo clean"} -> 1
      [] e = "ensure_dir" -> 2
      [] e \in {"install_sig", "curl", "curl sig", "check_sig"} -> 3
      [] e \in {"tar", "rename", "cwd"} -> 4
      [] e = "update_cmakelists" -> 5
      [] e \in {"cmake", "cmake xcode"} -> 6
      [] e = "ninja" -> 7
      [] e = "cargo clean" -> 8
      [] e \in {"assert llvm-config", "cargo build"} -> 9
      [] e \in {"debug", "release"} -> 10
      [] e = "die" -> 11

\* the invocation printed the success message
Printed == Ran("debug") \/ Ran("release")

\* C4: the steps of an invocation follow the fixed stage order (reset,
\* scaffolding, acquisition, tree preparation, patch, build-graph generation,
\* compiler build, downstream clean, downstream build, success message), a
\* stage's step is there only when the stages before it completed, and a step
\* that failed is followed by die() and nothing else: no downstream build and
\* no success message after a failed generator or compiler build.
C4_FixedOrderAndAbort ==
    /\ \A j \in 1..Len(trace) : \A k \in j..Len(trace) :
          Rank(trace[j].e) <= Rank(trace[k].e)
    /\ \A k \in 1..Len(trace) :
          /\ ~trace[k].ok => (k + 1 = Len(trace) /\ trace[k + 1].e = "die")
          /\ trace[k].e = "die" => (k = Len(trace) /\ pc = "dead")
          /\ Rank(trace[k].e) \in 3..10 => trace[1].e \in {"rmtree", "ensure_dir"}
          /\ Rank(trace[k].e) \in 4..10 => (Ran("ensure_dir") /\ Ran("install_sig"))
          /\ Rank(trace[k].e) \in 6..10 => Ran("update_cmakelists")
          /\ Rank(trace[k].e) \in 8..10 => Ran("ninja")
    /\ Printed => (Ran("cargo build") /\ pc = "done")
    /\ pc = "done" => Printed

\* the generator failed: the invocation is dead with nothing after the failure
C4_Witness ==
    /\ pc = "dead"
    /\ Len(trace) >= 2
    /\ trace[Len(trace) - 1] = Event("cmake", 0, FALSE)
    /\ Ran("update_cmakelists")

\* the invocation before this one succeeded with the variant asked for now
SameVariantAgain == last = (IF args.debug THEN "ok_debug" ELSE "ok_release")

\* C5: an invocation right after a successful one with the same variant (no
\* reset, no IDE project) that runs to the end downloads nothing, extracts
\* nothing, does not run cmake, and runs cargo build once without cargo clean.
C5_SecondRunDoesNoRework ==
    (pc = "done" /\ SameVariantAgain /\ ~args.clean_all /\ ~args.xcode) =>
        /\ ~Ran("curl") /\ ~Ran("curl sig") /\ ~Ran("check_sig")
        /\ ~Ran("tar") /\ ~Ran("rename")
        /\ ~Ran("cmake") /\ ~Ran("cmake xcode")
        /\ Times("cargo build") = 1
        /\ ~Ran("cargo clean")

C5_Witness ==
    /\ pc = "done"
    /\ SameVariantAgain
    /\ ~args.clean_all /\ ~args.xcode /\ ~args.debug
    /\ Ran("ninja")

\* what a first run on a fresh root does when every tool succeeds
FreshRunSteps ==
    <<Event("ensure_dir", 0, TRUE), Event("install_sig", 0, TRUE),
      Event("curl", 1, TRUE), Event("curl sig", 1, TRUE), Event("check_sig", 1, TRUE),
      Event("curl", 2, TRUE), Event("curl sig", 2, TRUE), Event("check_sig", 2, TRUE),
      Event("curl", 3, TRUE), Event("curl sig", 3, TRUE), Event("check_sig", 3, TRUE),
      Event("tar", 1, TRUE), Event("rename", 1, TRUE),
      Event("tar", 2, TRUE), Event("rename", 2, TRUE),
      Event("tar", 3, TRUE), Event("rename", 3, TRUE),
      Event("update_cmakelists", 0, TRUE), Event("cmake", 0, TRUE),
      Event("ninja", 0, TRUE), Event("cargo build", 0, TRUE),
      Event("release", 0, TRUE)>>

\* the steps of the full reset
ResetSteps == <<Event("rmtree", 0, TRUE), Event("reset cargo clean", 0, TRUE)>>

\* C6: the first invocation on a fresh root, RelWithDebInfo, no IDE project,
\* every tool succeeding: the three archives are downloaded and verified, the
\* three trees extracted in nesting order, cmake, ninja and cargo build each
\* run once, the command is in CMakeLists.txt exactly once and the printed
\* path is the release location.
C6_FreshReleaseRun ==
    (pc = "done" /\ last = "none" /\ invocations = 1 /\ ~args.debug /\ ~args.xcode) =>
        /\ trace = (IF args.clean_all THEN ResetSteps ELSE <<>>) \o FreshRunSteps
        /\ Occurrences(cmakelists, command) = 1
        /\ \A i \in Archives : tree[i].at = "canon" /\ tree[i].checked

C6_Witness ==
    /\ pc = "done" /\ last = "none" /\ invocations = 1
    /\ ~args.debug /\ ~args.xcode /\ ~args.clean_all
    /\ target["release"] = "built"

\* C7: an invocation asking for Debug right after a successful RelWithDebInfo
\* one (no reset) that runs to the end has run cmake again, has downloaded and
\* extracted nothing, and the binary it checked and printed is the debug one.
C7_VariantSwitchReconfigures ==
    (pc = "done" /\ last = "ok_release" /\ args.debug /\ ~args.clean_all) =>
        /\ Times("cmake") = 1
        /\ build_ninja.type = "Debug"
        /\ ~Ran("curl") /\ ~Ran("tar") /\ ~Ran("rename")
        /\ c2rust_bin_path(args) = <<"target", "debug", "c2rust">>
        /\ trace[Len(trace)] = Event("debug", 0, TRUE)
        /\ target["debug"] = "built"

C7_Witness ==
    /\ pc = "done" /\ last = "ok_release"
    /\ args.debug /\ ~args.clean_all /\ ~args.xcode
    /\ target["release"] = "built"

\* C8: update_cmakelists run on a file it has already run on leaves the file
\* as it is, whatever the file held at first (command absent, command
\* present, no line break at the end).
C8_SecondPatchChangesNothing ==
    [][(pc = "update_cmakelists" /\ patched_once) => cmakelists' = cmakelists]_vars

\* run twice on a file that had no line break at its end
C8_Witness ==
    /\ pc = "configure"
    /\ invocations >= 2
    /\ patched_once
    /\ cmakelists = <<"x">> \o command

\* C9: once update_cmakelists has run on the file, the command is in it
\* exactly once, however often update_cmakelists ran.
C9_MarkerExactlyOnce ==
    patched_once => (cmakelists # NoFile /\ Occurrences(cmakelists, command) = 1)

\* run twice on a file that held the command from the start
C9_Witness ==
    /\ pc = "configure"
    /\ invocations >= 2
    /\ patched_once
    /\ cmakelists = command \o <<NL>>

\* where _main stands during its startup checks
Startup == {"plumbum", "parse_args", "clang_version"}

StartupChecks == {"check_plumbum", "parse_args", "ensure_clang_version"}

\* C10: the startup checks (plumbum version, IDE project off macOS, clang
\* version) come before every stage and change nothing on disk: while _main is
\* at them no step of a stage has run, a step from there leaves the filesystem
\* as it is, a failed check is the invocation's only step before die(), and
\* the dead process changes nothing.
C10_StartupChecksDieFirst ==
    [][/\ pc \in Startup =>
             /\ trace = <<>>
             /\ UNCHANGED fsvars
             /\ pc' = "dead" =>
                   /\ Len(trace') = 2
                   /\ trace'[1].e \in StartupChecks /\ ~trace'[1].ok
                   /\ trace'[2].e = "die"
       /\ (\E k \in 1..Len(trace) : trace[k].e \in StartupChecks) =>
             (pc = "dead" /\ Len(trace) = 2 /\ UNCHANGED fsvars)
      ]_vars

\* a reset was asked for on a built tree, clang is too old: dead, tree intact
C10_Witness ==
    /\ pc = "dead"
    /\ trace = <<Event("ensure_clang_version", 0, FALSE), Event("die", 0, TRUE)>>
    /\ args.clean_all
    /\ tree[3].at = "canon"
    /\ target["release"] = "built"

\* the position of step e in the invocation's steps (0: not run)
At(e) == IF Ran(e) THEN CHOOSE k \in 1..Len(trace) : trace[k].e = e ELSE 0

\* where _main stands once configure_and_build_llvm has decided about cmake
\* and cmake, if it ran, is over
AfterConfigure ==
    {"ninja", "makedirs", "build_transpiler", "cargo_clean", "cargo_build",
     "print_success_msg", "done"}

\* C11: with --xcode, an invocation that is past the configure stage has run
\* cmake for the Ninja build graph and after it cmake for the Xcode project,
\* once each, whatever build.ninja held, and the Xcode project directory
\* exists.
C11_XcodeAlwaysRegenerates ==
    (args.xcode /\ pc \in AfterConfigure) =>
        /\ Times("cmake") = 1
        /\ Times("cmake xcode") = 1
        /\ At("cmake") < At("cmake xcode")
        /\ "AST_EXPO_PRJ_DIR" \in dirs

\* --xcode right after a successful run of the same variant: build.ninja was
\* there with the requested build type, and both cmake runs happened
C11_Witness ==
    /\ args.xcode /\ ~args.clean_all
    /\ SameVariantAgain
    /\ pc = "ninja"
    /\ Ran("cmake xcode")

\* the steps of a run on a fresh root with command line a, every tool
\* succeeding
FreshSteps(a) ==
    <<Event("ensure_dir", 0, TRUE), Event("install_sig", 0, TRUE),
      Event("curl", 1, TRUE), Event("curl sig", 1, TRUE), Event("check_sig", 1, TRUE),
      Event("curl", 2, TRUE), Event("curl sig", 2, TRUE), Event("check_sig", 2, TRUE),
      Event("curl", 3, TRUE), Event("curl sig", 3, TRUE), Event("check_sig", 3, TRUE),
      Event("tar", 1, TRUE), Event("rename", 1, TRUE),
      Event("tar", 2, TRUE), Event("rename", 2, TRUE),
      Event("tar", 3, TRUE), Event("rename", 3, TRUE),
      Event("update_cmakelists", 0, TRUE), Event("cmake", 0, TRUE)>>
    \o (IF a.xcode THEN <<Event("cmake xcode", 0, TRUE)>> ELSE <<>>)
    \o <<Event("ninja", 0, TRUE), Event("cargo build", 0, TRUE),
         Event(IF a.debug THEN "debug" ELSE "release", 0, TRUE)>>

\* nothing derived is left: no directory, no archive, no tree under its
\* canonical name, no build graph
DerivedGone ==
    /\ dirs = {}
    /\ \A i \in Archives : archive[i] = "none" /\ tree[i].at # "canon"
    /\ cmakelists = NoFile
    /\ build_ninja = NoGraph

\* C12: with --clean-all, from any state before: after the rmtree calls the
\* source, build, download and Xcode directories are gone; cargo clean follows
\* and both come before every step of a normal stage; an invocation that
\* then runs to the end does what a run on a fresh root does (three archives
\* fetched and verified, three trees extracted, cmake run).
C12_FullResetThenFresh ==
    args.clean_all =>
        /\ pc = "cargo_clean_all" => (trace = <<Event("rmtree", 0, TRUE)>> /\ DerivedGone)
        /\ pc = "scaffold" =>
              /\ trace = ResetSteps
              /\ DerivedGone
              /\ \A v \in Variants : target[v] = "none"
        /\ \A k \in 1..Len(trace) :
              Rank(trace[k].e) \in 2..10 => (k > 2 /\ SubSeq(trace, 1, 2) = ResetSteps)
        /\ pc = "done" => trace = ResetSteps \o FreshSteps(args)

\* a full reset right after a successful run, run to the end
C12_Witness ==
    /\ args.clean_all
    /\ last \in {"ok_debug", "ok_release"}
    /\ pc = "done"

\* the state an uninterrupted run with every tool succeeding ends in, but
\* for the verification of the archives
ReconciledButForSignatures ==
    /\ \A i \in Archives : archive[i] # "none" /\ tree[i].at = "canon" /\ tree[i].tools
    /\ cmakelists # NoFile /\ Occurrences(cmakelists, command) = 1
    /\ build_ninja.type = Requested
    /\ built
    /\ target[Artifact] = "built"

\* C13: an invocation that follows an interrupted one and runs to the end
\* (every tool succeeding) ends where an uninterrupted run ends: three
\* verified archives, the three trees under their canonical names, the command
\* once in CMakeLists.txt, build.ninja for the requested build type, the
\* transpiler built.
C13_InterruptReconciled ==
    (pc = "done" /\ last = "interrupted") =>
        /\ ReconciledButForSignatures
        /\ \A i \in Archives : archive[i] = "verified" /\ tree[i].checked

\* (what remains true of the run after an interrupted one)
C13_ReconciledUpToVerification ==
    (pc = "done" /\ last = "interrupted") => ReconciledButForSignatures

\* where download_llvm_sources tests for the canonical directory of archive i
ExtractAt(i) == <<"extract_llvm", "extract_clang", "extract_extra">>[i]

\* the steps of the running invocation on archive i that are e
TimesOn(e, i) == Cardinality({k \in 1..Len(trace) : trace[k].e = e /\ trace[k].i = i})

\* C14: per archive, tar and rename run exactly when the canonical directory
\* is not there at that point: with the directory there the step changes no
\* tree and runs nothing; without it the step is tar on that archive; a
\* directory that is there stays, untouched, until a full reset, so that
\* without --clean-all an archive extracted once is not extracted again.
C14_ExtractIffNoCanonicalDir ==
    [][\A i \in Archives :
          /\ (pc = ExtractAt(i) /\ tree[i].at = "canon" /\ pc' # "idle") =>
                (trace' = trace /\ tree' = tree /\ pc' # "dead")
          /\ (pc = ExtractAt(i) /\ tree[i].at # "canon" /\ pc' # "idle") =>
                (TimesOn("tar", i)' = TimesOn("tar", i) + 1)
          /\ (tree[i].at = "canon" /\ pc # "clean_all") =>
                /\ tree'[i] = tree[i]
                /\ TimesOn("tar", i)' <= TimesOn("tar", i)
                /\ TimesOn("rename", i)' <= TimesOn("rename", i)
          /\ (TimesOn("rename", i)' > TimesOn("rename", i)) =>
                (TimesOn("tar", i) = 1 /\ tree[i].at = "raw" /\ tree'[i].at = "canon")
      ]_vars

\* a later invocation without --clean-all is past the three tests and has
\* extracted nothing
C14_Witness ==
    /\ invocations >= 2
    /\ ~args.clean_all
    /\ pc = "update_cmakelists"
    /\ ~Ran("tar") /\ ~Ran("rename")
    /\ \A i \in Archives : tree[i].at = "canon"

\* the invocation's update_cmakelists found no CMakeLists.txt
PatchTargetMissing ==
    \E k \in 1..Len(trace) : trace[k] = Event("update_cmakelists", 0, FALSE)

\* C15: update_cmakelists without its CMakeLists.txt is fatal: the step
\* leaves the filesystem as it is (no file made, nothing written) and ends in
\* die(); the invocation runs no cmake, no ninja and no cargo afterwards.
C15_MissingPatchTargetIsFatal ==
    [][/\ (pc = "update_cmakelists" /\ cmakelists = NoFile /\ pc' # "idle") =>
             /\ pc' = "dead"
             /\ UNCHANGED fsvars
             /\ trace' = trace \o <<Event("update_cmakelists", 0, FALSE), Event("die", 0, TRUE)>>
       /\ PatchTargetMissing =>
             /\ pc = "dead" /\ pc' = "idle"
             /\ cmakelists = NoFile
             /\ UNCHANGED fsvars
             /\ \A k \in 1..Len(trace) : Rank(trace[k].e) \notin 6..10
      ]_vars

\* the clang tree is there without its CMakeLists.txt and the invocation died
\* at the patch
C15_Witness ==
    /\ pc = "dead"
    /\ PatchTargetMissing
    /\ tree[2].at = "canon"
    /\ build_ninja = NoGraph

\* tree i is under its canonical name and has the directory the next archive
\* goes into
ParentReady(i) == tree[i].at = "canon" /\ tree[i].tools

\* the invocation found the directory inside tree i missing
ParentMissing(i) == \E k \in 1..Len(trace) : trace[k] = Event("cwd", i, FALSE)

\* C16: within an invocation tar runs on the clang archive only with the llvm
\* tree under its canonical name and its tools directory there, and on the
\* extra-tools archive only with, in addition, clang in place inside it; an
\* invocation that finds the parent directory missing dies there, having
\* extracted no later archive and run no later stage.
C16_NestingOrder ==
    /\ (RanOn("tar", 2) \/ pc \in {"extract_clang", "rename_clang"}) => ParentReady(1)
    /\ (RanOn("tar", 3) \/ pc \in {"extract_extra", "rename_extra"}) =>
          (ParentReady(1) /\ ParentReady(2))
    /\ \A i \in 1..2 : ParentMissing(i) =>
          /\ pc = "dead"
          /\ trace[Len(trace) - 1] = Event("cwd", i, FALSE)
          /\ ~tree[i].tools
          /\ \A k \in 1..Len(trace) :
                /\ trace[k].e \in {"tar", "rename"} => trace[k].i <= i
                /\ Rank(trace[k].e) \notin 5..10

\* llvm was extracted in this invocation, its tools directory is not there
C16_Witness ==
    /\ pc = "dead"
    /\ ParentMissing(1)
    /\ RanOn("rename", 1)
    /\ tree[2].at = "none"

\* cargo holds build state for the requested variant (a binary, or what a
\* failed build left) and an entry that is not excluded is newer than it
StaleBuildState ==
    /\ target[Artifact] # "none"
    /\ \E p \in newer[Artifact] : ~Excluded(p)

\* C17: whenever cargo build is about to be invoked on build state of an
\* earlier invocation that is older than some not excluded entry of BUILD_DIR,
\* cargo clean has run earlier in the invocation.
C17_NoMissedInvalidation ==
    (pc = "cargo_build" /\ StaleBuildState) => Ran("cargo clean")

\* (the same for build state that includes the binary)
C17_NoMissedInvalidationOfBinary ==
    (pc = "cargo_build" /\ StaleArtifact) => Ran("cargo clean")

\* the settings cmake writes a build graph for in this invocation
RequestedGraph == [type |-> build_type(args), assertions |-> args.assertions]

\* C18: whenever ninja is about to be invoked, build.ninja was generated with
\* the settings of the running invocation: its build type and its assertions
\* setting.
C18_NinjaOnRequestedGraph ==
    pc = "ninja" => build_ninja = RequestedGraph

\* (the same for the build type alone)
C18_NinjaOnRequestedBuildType ==
    pc = "ninja" => (build_ninja # NoGraph /\ build_ninja.type = build_type(args))

====
